---- MODULE Spec2Model ----
(***************************************************************************)
(* Model of the dataset format adjuster: the batch resize/save task        *)
(* (ProcessAndSaveTask.run), the main window's handlers that start it, and *)
(* the manifest writer (generate_lst).                                     *)
(***************************************************************************)
EXTENDS Integers, Sequences, FiniteSets, TLC

\* ---------------------------------------------------------------- bounds
\* Longest file list of a job.
MaxItems == 3
\* Longest file list of a job that outnumbers the worker pool.
MaxPoolItems == 5
\* Longest file list a folder selection yields.
MaxSelected == 1
\* Most tasks started in one session of the window.
MaxTasks == 1
\* Most names in a listing of images/ or annotations/.
MaxListing == 2

\* ------------------------------------------------------ program constants
\* ThreadPoolExecutor(max_workers=4)
max_workers == 4
\* QLineEdit("512"): the default width and height
DefaultSize == 512

\* The extensions select_*_folder accepts, in the order of its tuple.
SourceExts == <<"png", "jpg", "jpeg", "bmp", "tif", "tiff", "gif">>

VARIABLES
    \* --- ProcessAndSaveTask: the job (self.*) and its environment
    file_list,      \* sequence of source paths [stem, ext]
    width, height,  \* target size
    out_format,     \* output format
    unreadable,     \* indices of file_list that Image.open cannot decode
    writable,       \* whether files can be written under target_folder
    fs,             \* target_folder: output name -> content (two blocks)
    \* --- ProcessAndSaveTask.run
    pc,             \* "run" until finished is emitted, then "done"
    submitted,      \* number of executor.submit calls made
    wstate,         \* per item: position of process_file / its future
    result,         \* per item: the value process_file returned
    processed,      \* per item: number of calls of process_file
    yielded,        \* futures as_completed has yielded
    count,          \* run's local count
    progress,       \* signals.progress: the done_count values emitted
    messages,       \* signals.message: per item, messages naming its path
    finished,       \* signals.finished: the (count, total) pairs emitted
    \* --- DatasetFormatAdjuster (the main window) and the file system it uses
    dataset_folder, \* self.dataset_folder: a path, empty at first
    dirs,           \* the directories that exist, as paths
    mask_files,     \* self.mask_files
    image_files,    \* self.image_files
    entries,        \* the text of the four QLineEdit fields
    threadpool,     \* the tasks given to self.threadpool.start, in order
    dialog,         \* the QMessageBox shown last ("none": none yet)
    images_dir,     \* the names os.listdir(images_folder) returns
    annotations_dir, \* the names os.listdir(annotations_folder) returns
    lst_txt         \* the content of lst/lst.txt, a sequence of characters

jobVars == <<file_list, width, height, out_format, unreadable, writable>>
runVars == <<fs, pc, submitted, wstate, result, processed, yielded, count,
             progress, messages, finished>>
uiVars == <<dataset_folder, dirs, mask_files, image_files, entries, threadpool,
            dialog>>
lstVars == <<images_dir, annotations_dir, lst_txt>>
vars == <<jobVars, runVars, uiVars, lstVars>>

\* ------------------------------------------------------------- helpers
total == Len(file_list)
Items == 1..total

\* os.path.splitext(os.path.basename(file_path))[0]
base_name(file_path) == file_path.stem

\* base_name + "." + self.out_format
new_file(file_path) == <<base_name(file_path), out_format>>

\* A file that does not exist, and the content of a file being written:
\* block k holds the index of the item whose save wrote it (0: not written).
Absent == <<>>
Truncated(i) == <<i, 0>>

Max(S) == CHOOSE x \in S : \A y \in S : y <= x

\* File lists of length n with pairwise distinct paths; stems are numbered in
\* order of first appearance, the k-th path of a stem takes the k-th extension.
\* The k-th path of stem s in a list that already holds l: s with the next
\* extension no path of that stem has taken.
NextPath(l, s) ==
    [stem |-> s, ext |-> SourceExts[1 + Cardinality({k \in 1..Len(l) : l[k].stem = s})]]

\* File lists of length n with pairwise distinct paths; stems are numbered in
\* order of first appearance.
RECURSIVE FileLists(_)
FileLists(n) ==
    IF n = 0 THEN {<<>>}
    ELSE UNION { { Append(l, NextPath(l, s)) :
                     s \in 1..(Max({0} \cup {l[k].stem : k \in 1..Len(l)}) + 1) } :
                 l \in FileLists(n - 1) }

\* ------------------------------------------------------------ the task
\* ProcessAndSaveTask(file_list, target_folder, width, height, out_format),
\* and the start of run() up to the executor's creation.
TaskInit(fl, w, h, fmt) ==
    /\ file_list = fl
    /\ width = w
    /\ height = h
    /\ out_format = fmt
    /\ fs = [n \in {<<base_name(fl[i]), fmt>> : i \in 1..Len(fl)} |-> Absent]
    /\ pc = "run"
    /\ submitted = 0
    /\ wstate = [i \in 1..Len(fl) |-> "queued"]
    /\ result = [i \in 1..Len(fl) |-> FALSE]
    /\ processed = [i \in 1..Len(fl) |-> 0]
    /\ yielded = {}
    /\ count = 0
    /\ progress = <<>>
    /\ messages = [i \in 1..Len(fl) |-> 0]
    /\ finished = <<>>

\* self.dataset_folder = "": the empty path (a path is the sequence of its
\* components).
NoFolder == <<>>

\* No task: the state of the task's variables while none is modelled.
NoTask ==
    /\ file_list = <<>>
    /\ width = DefaultSize
    /\ height = DefaultSize
    /\ out_format = "png"
    /\ unreadable = {}
    /\ writable = TRUE
    /\ fs = <<>>
    /\ pc = "idle"
    /\ submitted = 0
    /\ wstate = <<>>
    /\ result = <<>>
    /\ processed = <<>>
    /\ yielded = {}
    /\ count = 0
    /\ progress = <<>>
    /\ messages = <<>>
    /\ finished = <<>>

\* -------------------------------------------------------- the main window
\* DatasetFormatAdjuster.__init__
WindowInit ==
    /\ dataset_folder = NoFolder
    /\ mask_files = <<>>
    /\ image_files = <<>>
    /\ entries = [e \in {"mask_width", "mask_height", "image_width", "image_height"} |->
                    <<"5", "1", "2">>]
    /\ threadpool = <<>>
    /\ dialog = "none"

\* No manifest and empty listings.
NoListing ==
    /\ images_dir = {}
    /\ annotations_dir = {}
    /\ lst_txt = Absent

\* A job of at most MaxItems files, some of them unreadable, for a target
\* folder that is writable or not.
Init ==
    /\ \E n \in 0..MaxItems : \E fl \in FileLists(n) :
         \E w \in {0, DefaultSize} : TaskInit(fl, w, DefaultSize, "png")
    /\ unreadable \in SUBSET (1..Len(file_list))
    /\ writable \in BOOLEAN
    /\ WindowInit
    /\ dirs = {}
    /\ NoListing

\* The file list of n files of distinct stems.
DistinctFiles(n) == [i \in 1..n |-> [stem |-> i, ext |-> SourceExts[1]]]

\* A job of more files than the pool has workers, all of distinct stems.
PoolInit ==
    /\ \E n \in (max_workers + 1)..MaxPoolItems :
         TaskInit(DistinctFiles(n), DefaultSize, DefaultSize, "png")
    /\ unreadable \in {{}, {1}}
    /\ writable \in BOOLEAN
    /\ WindowInit
    /\ dirs = {}
    /\ NoListing

\* A job of at most MaxItems files of distinct stems, some of them unreadable,
\* for a target folder that is writable or not.
FairInit ==
    /\ \E n \in 0..MaxItems : \E w \in {0, DefaultSize} :
         TaskInit(DistinctFiles(n), w, DefaultSize, "png")
    /\ unreadable \in SUBSET (1..Len(file_list))
    /\ writable \in BOOLEAN
    /\ WindowInit
    /\ dirs = {}
    /\ NoListing

\* executor.submit(process_file, fp), for the next fp of file_list
Submit ==
    /\ pc = "run"
    /\ submitted < total
    /\ submitted' = submitted + 1
    /\ UNCHANGED <<uiVars, lstVars, jobVars, fs, pc, wstate, result, processed, yielded, count,
                   progress, messages, finished>>

\* The items a worker thread of the executor is busy with.
InFlight == {i \in Items : wstate[i] \in {"opened", "writing", "returning"}}

\* Mutant of CanStart: a worker thread per work item, without the pool's limit.
CanStart_Unbounded(i) ==
    /\ i <= submitted
    /\ wstate[i] = "queued"
    /\ \A j \in 1..(i - 1) : wstate[j] # "queued"

\* A worker takes the oldest queued work item if a thread is free.
CanStart(i) ==
    /\ i <= submitted
    /\ wstate[i] = "queued"
    /\ \A j \in 1..(i - 1) : wstate[j] # "queued"
    /\ Cardinality(InFlight) < max_workers

\* Mutant of Fail: the exception is swallowed without a message.
Fail_Silent(i) ==
    /\ UNCHANGED messages
    /\ result' = [result EXCEPT ![i] = FALSE]
    /\ wstate' = [wstate EXCEPT ![i] = "returning"]

\* except Exception as e: signals.message.emit(...); return False
Fail(i) ==
    /\ messages' = [messages EXCEPT ![i] = @ + 1]
    /\ result' = [result EXCEPT ![i] = FALSE]
    /\ wstate' = [wstate EXCEPT ![i] = "returning"]

\* process_file: Image.open(file_path) and img.resize((width, height))
Start(i) ==
    /\ CanStart(i)
    /\ processed' = [processed EXCEPT ![i] = @ + 1]
    /\ IF i \notin unreadable /\ width > 0 /\ height > 0
       THEN /\ wstate' = [wstate EXCEPT ![i] = "opened"]
            /\ UNCHANGED <<messages, result>>
       ELSE Fail(i)
    /\ UNCHANGED <<uiVars, lstVars, jobVars, fs, pc, submitted, yielded, count, progress, finished>>

\* img.save(out_path, ...): the file is opened for writing (created or
\* truncated) and its first block written
SaveOpen(i) ==
    /\ i \in Items
    /\ wstate[i] = "opened"
    /\ IF writable
       THEN /\ fs' = [fs EXCEPT ![new_file(file_list[i])] = Truncated(i)]
            /\ wstate' = [wstate EXCEPT ![i] = "writing"]
            /\ UNCHANGED <<messages, result>>
       ELSE /\ Fail(i)
            /\ UNCHANGED fs
    /\ UNCHANGED <<uiVars, lstVars, jobVars, pc, submitted, processed, yielded, count, progress, finished>>

\* img.save: the rest of the file is written at this writer's offset;
\* return True
SaveWrite(i) ==
    /\ i \in Items
    /\ wstate[i] = "writing"
    /\ fs' = [fs EXCEPT ![new_file(file_list[i])] = <<@[1], i>>]
    /\ result' = [result EXCEPT ![i] = TRUE]
    /\ wstate' = [wstate EXCEPT ![i] = "returning"]
    /\ UNCHANGED <<uiVars, lstVars, jobVars, pc, submitted, processed, yielded, count, progress,
                   messages, finished>>

\* The worker stores process_file's return value in the future: it is done.
SetResult(i) ==
    /\ i \in Items
    /\ wstate[i] = "returning"
    /\ wstate' = [wstate EXCEPT ![i] = "done"]
    /\ UNCHANGED <<uiVars, lstVars, jobVars, fs, pc, submitted, result, processed, yielded, count,
                   progress, messages, finished>>

\* Mutant of done_count: the number of successes so far is emitted instead.
done_count_Successes == count

\* sum(1 for f in futures if f.done())
done_count == Cardinality({i \in Items : wstate[i] = "done"})

\* Mutant of Consume: count += 1 whatever the result.
Consume_CountAll(i) ==
    /\ pc = "run"
    /\ submitted = total
    /\ i \in Items \ yielded
    /\ wstate[i] = "done"
    /\ yielded' = yielded \cup {i}
    /\ count' = count + 1
    /\ progress' = Append(progress, Cardinality({j \in Items : wstate[j] = "done"}))
    /\ UNCHANGED <<uiVars, lstVars, jobVars, fs, pc, submitted, wstate, result, processed,
                   messages, finished>>

\* One iteration of `for future in as_completed(futures)`
Consume(i) ==
    /\ pc = "run"
    /\ submitted = total
    /\ i \in Items \ yielded
    /\ wstate[i] = "done"
    /\ yielded' = yielded \cup {i}
    /\ count' = IF result[i] THEN count + 1 ELSE count
    /\ progress' = Append(progress, done_count)
    /\ UNCHANGED <<uiVars, lstVars, jobVars, fs, pc, submitted, wstate, result, processed,
                   messages, finished>>

\* Mutant of Finish: finished is emitted without waiting for the futures.
Finish_Early ==
    /\ pc = "run"
    /\ submitted = total
    /\ finished' = Append(finished, <<count, total>>)
    /\ pc' = "done"
    /\ UNCHANGED <<uiVars, lstVars, jobVars, fs, submitted, wstate, result, processed, yielded,
                   count, progress, messages>>

\* Mutant of Finish: a closing progress event (total, total) before finished.
Finish_FinalProgress ==
    /\ pc = "run"
    /\ submitted = total
    /\ yielded = Items
    /\ progress' = Append(progress, total)
    /\ finished' = Append(finished, <<count, total>>)
    /\ pc' = "done"
    /\ UNCHANGED <<uiVars, lstVars, jobVars, fs, submitted, wstate, result, processed, yielded,
                   count, messages>>

\* The loop and the with block are left: signals.finished.emit(count, total)
Finish ==
    /\ pc = "run"
    /\ submitted = total
    /\ yielded = Items
    /\ finished' = Append(finished, <<count, total>>)
    /\ pc' = "done"
    /\ UNCHANGED <<uiVars, lstVars, jobVars, fs, submitted, wstate, result, processed, yielded,
                   count, progress, messages>>

Next ==
    \/ Submit
    \/ \E i \in Items : Start(i)
    \/ \E i \in Items : SaveOpen(i)
    \/ \E i \in Items : SaveWrite(i)
    \/ \E i \in Items : SetResult(i)
    \/ \E i \in Items : Consume(i)
    \/ Finish

Spec == Init /\ [][Next]_vars

\* The same task on a job larger than the pool.
PoolSpec == PoolInit /\ [][Next]_vars

\* The executor's threads and the task's thread keep running: a step that
\* stays possible is eventually taken.
FairSpec == FairInit /\ [][Next]_vars /\ WF_vars(Next)
\* ------------------------------------------------ the window's handlers
\* The folders QFileDialog.getExistingDirectory can return.
Bases == {"D"}

\* The directories create_dataset_folder makes, in the order of its calls.
SubDirs == <<"annotations", "images", "lst">>

\* The texts a width or height field is given.
TextChoices == {<<"5", "1", "2">>, <<"0">>, <<"-", "5">>, <<"a">>}

Digits == <<"0", "1", "2", "3", "4", "5", "6", "7", "8", "9">>

DigitValue(c) == (CHOOSE d \in 1..10 : Digits[d] = c) - 1

IsDigit(c) == \E d \in 1..10 : Digits[d] = c

RECURSIVE DigitsValue(_)
DigitsValue(t) ==
    IF t = <<>> THEN 0
    ELSE 10 * DigitsValue(SubSeq(t, 1, Len(t) - 1)) + DigitValue(t[Len(t)])

\* int(text): an optional sign and at least one digit, else ValueError.
ParseInt(t) ==
    LET signed == Len(t) > 0 /\ t[1] \in {"-", "+"}
        digits == IF signed THEN Tail(t) ELSE t
        valid == Len(digits) > 0 /\ \A k \in 1..Len(digits) : IsDigit(digits[k])
    IN  [ok |-> valid,
         value |-> IF ~valid THEN 0
                   ELSE IF signed /\ t[1] = "-" THEN 0 - DigitsValue(digits)
                   ELSE DigitsValue(digits)]

\* create_dataset_folder: the dialog is cancelled, or self.dataset_folder is
\* set and the three makedirs calls follow, `made` of them succeeding before
\* one raises (3: none raises). makedirs(exist_ok=True) of a directory that
\* exists does not raise.
create_dataset_folder ==
    \/ /\ dialog' = dialog
       /\ UNCHANGED <<dataset_folder, dirs, mask_files, image_files, entries,
                      threadpool, lstVars, jobVars, runVars>>
    \/ \E base \in Bases : \E made \in 0..3 :
         LET folder == <<base, "TARGET_EXTRACTION">> IN
         /\ made < 3 => Append(folder, SubDirs[made + 1]) \notin dirs
         /\ dataset_folder' = folder
         /\ dirs' = dirs \cup {Append(folder, SubDirs[k]) : k \in 1..made}
         /\ dialog' = IF made < 3 THEN "critical" ELSE dialog
         /\ UNCHANGED <<mask_files, image_files, entries, threadpool, lstVars,
                        jobVars, runVars>>

\* select_mask_folder: cancelled, or self.mask_files becomes the image files
\* of the folder chosen.
select_mask_folder ==
    \/ /\ mask_files' = mask_files
       /\ UNCHANGED <<dataset_folder, dirs, image_files, entries, threadpool,
                      dialog, lstVars, jobVars, runVars>>
    \/ \E n \in 0..MaxSelected : \E fl \in FileLists(n) :
         /\ mask_files' = fl
         /\ UNCHANGED <<dataset_folder, dirs, image_files, entries, threadpool,
                        dialog, lstVars, jobVars, runVars>>

\* select_image_folder
select_image_folder ==
    \/ /\ image_files' = image_files
       /\ UNCHANGED <<dataset_folder, dirs, mask_files, entries, threadpool,
                      dialog, lstVars, jobVars, runVars>>
    \/ \E n \in 0..MaxSelected : \E fl \in FileLists(n) :
         /\ image_files' = fl
         /\ UNCHANGED <<dataset_folder, dirs, mask_files, entries, threadpool,
                        dialog, lstVars, jobVars, runVars>>

\* The user types into one of the width and height fields.
EditEntry ==
    \E e \in DOMAIN entries : \E t \in TextChoices :
       /\ entries' = [entries EXCEPT ![e] = t]
       /\ UNCHANGED <<dataset_folder, dirs, mask_files, image_files, threadpool,
                      dialog, lstVars, jobVars, runVars>>

\* process_and_save: ProcessAndSaveTask(...) and self.threadpool.start(task)
process_and_save(fl, target_folder, w, h, fmt) ==
    IF dataset_folder = NoFolder
    THEN /\ dialog' = "warning"
         /\ UNCHANGED threadpool
    ELSE /\ threadpool' = Append(threadpool,
                                 [file_list |-> fl, target_folder |-> target_folder,
                                  width |-> w, height |-> h, out_format |-> fmt])
         /\ UNCHANGED dialog

\* save_mask_files and save_image_files: `kind` is "mask" or "image", `sub`
\* the directory of the dataset the files go to.
save_files(kind, sub, files) ==
    LET w == ParseInt(entries[kind \o "_width"])
        h == ParseInt(entries[kind \o "_height"])
    IN
    /\ Len(threadpool) < MaxTasks
    /\ IF dataset_folder = NoFolder
       THEN /\ dialog' = "warning"
            /\ UNCHANGED threadpool
       ELSE IF ~w.ok \/ ~h.ok
       THEN /\ dialog' = "critical"
            /\ UNCHANGED threadpool
       ELSE process_and_save(files, Append(dataset_folder, sub), w.value, h.value, "png")
    /\ UNCHANGED <<dataset_folder, dirs, mask_files, image_files, entries,
                   lstVars, jobVars, runVars>>

save_mask_files == save_files("mask", "annotations", mask_files)

save_image_files == save_files("image", "images", image_files)

UIInit ==
    /\ WindowInit
    /\ dirs = {}
    /\ NoListing
    /\ NoTask

UINext ==
    \/ create_dataset_folder
    \/ select_mask_folder
    \/ select_image_folder
    \/ EditEntry
    \/ save_mask_files
    \/ save_image_files

\* The window and its handlers, up to the start of a task.
UISpec == UIInit /\ [][UINext]_vars

\* ---------------------------------------------------------- generate_lst
\* The characters of the names in images/ and annotations/, by code point.
Ord(c) ==
    CASE c = "." -> 46 [] c = "B" -> 66 [] c = "\\" -> 92 [] c = "a" -> 97
      [] c = "b" -> 98 [] c = "g" -> 103 [] c = "m" -> 109 [] c = "n" -> 110
      [] c = "p" -> 112

Png(stem) == stem \o <<".", "p", "n", "g">>

\* The file names a listing may hold.
Names == {Png(<<"a">>), Png(<<"b">>), Png(<<"m">>), Png(<<"n">>), Png(<<"B">>),
          Png(<<"a", "\\", "b">>)}

\* Python's order of str: by code point, a proper prefix first.
RECURSIVE LexLess(_, _)
LexLess(x, y) ==
    IF x = <<>> THEN y # <<>>
    ELSE IF y = <<>> THEN FALSE
    ELSE IF x[1] # y[1] THEN Ord(x[1]) < Ord(y[1])
    ELSE LexLess(Tail(x), Tail(y))

\* sorted(os.listdir(folder))
RECURSIVE sorted(_)
sorted(S) ==
    IF S = {} THEN <<>>
    ELSE LET m == CHOOSE x \in S : \A y \in S \ {x} : LexLess(x, y)
         IN  <<m>> \o sorted(S \ {m})

\* s.replace("\\", "/")
replace(str) == [k \in 1..Len(str) |-> IF str[k] = "\\" THEN "/" ELSE str[k]]

images_prefix == <<"i", "m", "a", "g", "e", "s", "/">>
annotations_prefix == <<"a", "n", "n", "o", "t", "a", "t", "i", "o", "n", "s", "/">>

\* f"{img_rel} {ann_rel}\n"
lst_line(img_name, ann_name) ==
    replace(images_prefix \o img_name) \o <<" ">>
        \o replace(annotations_prefix \o ann_name) \o <<"\n">>

Min(a, b) == IF a <= b THEN a ELSE b

\* The lines written for zip(image_files, annotation_files), from the k-th on.
RECURSIVE lst_lines(_, _, _)
lst_lines(imgs, anns, k) ==
    IF k > Min(Len(imgs), Len(anns)) THEN <<>>
    ELSE lst_line(imgs[k], anns[k]) \o lst_lines(imgs, anns, k + 1)

\* generate_lst. makedirs(lst_folder) is outside the try: when it raises the
\* handler ends there. open(lst_file, 'w') empties the file before the
\* listings are read.
generate_lst ==
    LET folder(sub) == Append(dataset_folder, sub) IN
    \/ /\ dataset_folder = NoFolder
       /\ dialog' = "warning"
       /\ UNCHANGED <<dataset_folder, dirs, mask_files, image_files, entries,
                      threadpool, lstVars, jobVars, runVars>>
    \/ /\ dataset_folder # NoFolder
       /\ folder("lst") \notin dirs
       /\ UNCHANGED vars
    \/ /\ dataset_folder # NoFolder
       /\ dirs' = dirs \cup {folder("lst")}
       /\ IF folder("images") \in dirs /\ folder("annotations") \in dirs
          THEN /\ lst_txt' = lst_lines(sorted(images_dir), sorted(annotations_dir), 1)
               /\ dialog' = "information"
          ELSE /\ lst_txt' = <<>>
               /\ dialog' = "critical"
       /\ UNCHANGED <<dataset_folder, mask_files, image_files, entries, threadpool,
                      images_dir, annotations_dir, jobVars, runVars>>

\* A manifest left by an earlier run.
Stale == <<"a", "\n">>

\* The dataset folder as create_dataset_folder can leave it, with at most
\* MaxListing names in each of images/ and annotations/.
LstInit ==
    /\ \E made \in 0..3 :
         /\ dataset_folder \in {NoFolder, <<"D", "TARGET_EXTRACTION">>}
         /\ dirs = IF dataset_folder = NoFolder THEN {}
                   ELSE {Append(dataset_folder, SubDirs[k]) : k \in 1..made}
    /\ images_dir \in {S \in SUBSET Names : Cardinality(S) <= MaxListing}
    /\ annotations_dir \in {S \in SUBSET Names : Cardinality(S) <= MaxListing}
    /\ Append(dataset_folder, "images") \notin dirs => images_dir = {}
    /\ Append(dataset_folder, "annotations") \notin dirs => annotations_dir = {}
    /\ lst_txt \in {Absent, Stale}
    /\ Append(dataset_folder, "lst") \notin dirs => lst_txt = Absent
    /\ mask_files = <<>>
    /\ image_files = <<>>
    /\ entries = [e \in {"mask_width", "mask_height", "image_width", "image_height"} |->
                    <<"5", "1", "2">>]
    /\ threadpool = <<>>
    /\ dialog = "none"
    /\ NoTask

LstNext == generate_lst

\* The manifest writer on a dataset folder that holds files.
LstSpec == LstInit /\ [][LstNext]_vars

\* ------------------------------------------------------------ the claims
\* The items whose processing raises: the source cannot be decoded, the size
\* is not positive, or the output cannot be written.
Raises(i) == i \in unreadable \/ width <= 0 \/ height <= 0 \/ ~writable

Successes == {i \in Items : ~Raises(i)}

\* C1: with more items than workers, the completed values of the progress
\* events are exactly 1, 2, ..., N: no value twice, none skipped.
C1_ProgressCountsOneToN ==
    total > max_workers => \A k \in 1..Len(progress) : progress[k] = k

\* C2: every item whose processing raises emits exactly one message naming it
\* and is not counted; every other item is processed, emits no message and is
\* counted; the total reported is len(file_list); the batch never stops early.
C2_FailuresAreIsolated ==
    /\ \A i \in Items : messages[i] <= (IF Raises(i) THEN 1 ELSE 0)
    /\ \A i \in Items : wstate[i] \in {"returning", "done"} =>
          /\ messages[i] = (IF Raises(i) THEN 1 ELSE 0)
          /\ result[i] = ~Raises(i)
    /\ count <= Cardinality(Successes)
    /\ pc = "done" =>
          /\ \A i \in Items : processed[i] = 1 /\ wstate[i] = "done"
          /\ finished = << <<Cardinality(Successes), Len(file_list)>> >>

C2_Witness ==
    /\ pc = "done"
    /\ \E i \in Items : Raises(i) /\ i \in unreadable
    /\ \E i \in Items : ~Raises(i)

\* C3: every run eventually emits finished(successes, total), exactly once,
\* only after every item has produced its result; successes is the number of
\* items that returned success and total is len(file_list); no progress or
\* message event follows finished.
C3_FinishedOnceAtTheEnd ==
    /\ <>(Len(finished) = 1)
    /\ [](Len(finished) <= 1)
    /\ [](Len(finished) = 1 =>
            /\ \A i \in Items : wstate[i] = "done"
            /\ finished[1][1] = Cardinality({i \in Items : result[i]})
            /\ finished[1][2] = Len(file_list)
            /\ finished[1][1] <= finished[1][2]
            /\ (Successes = Items => finished[1][1] = Len(file_list)))
    /\ [][Len(finished) = 1 => UNCHANGED <<progress, messages, finished>>]_vars

C3_Witness ==
    /\ Len(finished) = 1
    /\ total >= 2
    /\ finished[1][1] >= 1
    /\ finished[1][1] < total

\* C4: a job with an empty file list emits no progress event and no message
\* event, and the finished event it emits is finished(0, 0).
C4_EmptyJob ==
    total = 0 =>
       /\ progress = <<>>
       /\ \A i \in DOMAIN messages : messages[i] = 0
       /\ finished \in {<<>>, << <<0, 0>> >>}
       /\ pc = "done" => finished = << <<0, 0>> >>

C4_Witness == total = 0 /\ pc = "done" /\ finished = << <<0, 0>> >>

\* C5: one progress event per item; the completed values never decrease, lie
\* in 1..total, are at least the number of items the loop has consumed, and
\* the last one before finished is total.
C5_ProgressMonotone ==
    /\ Len(progress) = Cardinality(yielded)
    /\ Len(progress) <= total
    /\ \A k \in 1..Len(progress) :
          /\ progress[k] \in 1..total
          /\ progress[k] >= k
          /\ k > 1 => progress[k - 1] <= progress[k]
    /\ pc = "done" =>
          /\ Len(progress) = total
          /\ total > 0 => progress[total] = total

C5_Witness ==
    /\ pc = "done"
    /\ total >= 3
    /\ progress[1] > 1
    /\ \E k \in 2..total : progress[k - 1] = progress[k]

\* C6, as stated: when no file can be written into the destination, once the
\* failure has surfaced as a message the job emits no further progress event
\* and no finished event.
C6_Original ==
    [][(~writable /\ total >= 1 /\ unreadable = {} /\ width > 0
          /\ \E i \in Items : messages[i] > 0)
        => (progress' = progress /\ finished' = finished)]_vars

\* C6, amended: when no file can be written into the destination, every item
\* emits one message, nothing is written, one progress event is emitted per
\* item and the run ends with finished(0, total).
C6_UnwritableStillFinishes ==
    (~writable /\ total >= 1 /\ unreadable = {} /\ width > 0) =>
       /\ \A n \in DOMAIN fs : fs[n] = Absent
       /\ count = 0
       /\ pc = "done" =>
            /\ \A i \in Items : messages[i] = 1
            /\ Len(progress) = total
            /\ finished = << <<0, total>> >>

C6_Witness ==
    /\ ~writable /\ total >= 2 /\ unreadable = {} /\ width > 0
    /\ pc = "done"

\* C9: at most 4 items are being processed at any time, whatever the number
\* of items; each entry of file_list is processed exactly once: a failed item
\* is not retried and no item is skipped.
C9_PoolBoundAndOnce ==
    /\ Cardinality(InFlight) <= 4
    /\ \A i \in Items : processed[i] <= 1
    /\ \A i \in Items : wstate[i] # "queued" => processed[i] = 1
    /\ pc = "done" => \A i \in Items : processed[i] = 1

C9_Witness ==
    /\ Cardinality(InFlight) = 4
    /\ \E i \in Items : i <= submitted /\ wstate[i] = "queued"
    /\ \E i \in InFlight : wstate[i] = "returning" /\ ~result[i] /\ messages[i] = 1

\* The output files of the items of one base name.
Writers(n) == {i \in Items : new_file(file_list[i]) = n}

\* C10: the output name depends on the base name and the format only; when
\* two items of one base name both succeed, both are counted, one file of
\* that name exists and its content is that of the item that wrote last;
\* items of distinct base names do not affect each other's file.
C10_LastWriterWins ==
    pc = "done" =>
       /\ count = Cardinality(Successes)
       /\ \A n \in DOMAIN fs :
            (\E i \in Writers(n) : ~Raises(i)) =>
               \E i \in Writers(n) : fs[n] = <<i, i>>

\* C7: a task is started only when the dataset folder is set, the width and
\* the height are positive integers and the destination directory has been
\* created.
C7_TaskOnlyWhenValid ==
    \A k \in 1..Len(threadpool) :
       /\ dataset_folder # NoFolder
       /\ threadpool[k].width > 0
       /\ threadpool[k].height > 0
       /\ threadpool[k].target_folder \in dirs

\* The manifest of the claim: line i names the i-th image and the i-th
\* annotation of the sorted listings, as they are named.
RECURSIVE NamedLines(_, _, _)
NamedLines(imgs, anns, k) ==
    IF k > Min(Len(imgs), Len(anns)) THEN <<>>
    ELSE images_prefix \o imgs[k] \o <<" ">> \o annotations_prefix \o anns[k]
            \o <<"\n">> \o NamedLines(imgs, anns, k + 1)

\* C8: generate_lst replaces lst/lst.txt with min(|images|, |annotations|)
\* lines, line i being "images/<i-th sorted image> annotations/<i-th sorted
\* annotation>".
C8_ManifestPairsSortedListings ==
    dialog = "information" =>
       lst_txt = NamedLines(sorted(images_dir), sorted(annotations_dir), 1)

====
